---- MODULE Spec2Model ----
(***************************************************************************)
(* A model of the lsp-client crate: the message framer (src/parsing.rs)    *)
(* and the client connection with its background reader (src/client.rs).   *)
(*                                                                         *)
(* Byte streams are TLA+ strings, one character per byte.  JSON values are *)
(* records tagged by t: null, bool, num (a natural number), str, arr (a    *)
(* sequence of values) and obj (a function from key strings to values, as  *)
(* serde_json's sorted map).                                               *)
(***************************************************************************)
EXTENDS Integers, Sequences, FiniteSets, TLC

(***************************************************************************)
(* Bounds of the model.                                                    *)
(***************************************************************************)
\* number of caller threads holding a clone of the connection handle
NumCallers == 2
\* calls (send_request or send_notification) made on the connection at most
MaxSends == 2
\* frames the server subprocess writes to its stdout at most
MaxServerMsgs == 2
\* reads of the closed stream the model follows before it stops counting
MaxEofReads == 2

(***************************************************************************)
(* Bytes.                                                                  *)
(***************************************************************************)
Chr(s, i) == SubSeq(s, i, i)

\* the printable ASCII characters in code order: 32 (space) to 95 (_), and
\* 97 (a) to 126 (~)
AsciiLo ==
  " !\"#$%&'()*+,-./0123456789:;<=>?@ABCDEFGHIJKLMNOPQRSTUVWXYZ[\\]^_"

AsciiHi == "abcdefghijklmnopqrstuvwxyz{|}~"

AsciiChars ==
  { Chr(AsciiLo, i) : i \in 1..Len(AsciiLo) } \cup { Chr(AsciiHi, i) : i \in 1..Len(AsciiHi) }

AsciiCode ==
  [ c \in AsciiChars |->
      IF \E i \in 1..Len(AsciiLo) : Chr(AsciiLo, i) = c
      THEN 31 + (CHOOSE i \in 1..Len(AsciiLo) : Chr(AsciiLo, i) = c)
      ELSE 96 + (CHOOSE i \in 1..Len(AsciiHi) : Chr(AsciiHi, i) = c) ]

\* the two bytes of a two-byte UTF-8 sequence (0xC3 0xA9, the letter e with
\* an acute accent).  TLC keeps only 7-bit characters intact in the states it
\* stores, so the model gives up two ASCII characters that its data never
\* holds: "^" stands for the byte 0xC3 and "~" for the byte 0xA9.
LeadByte == "^"

ContByte == "~"

\* the byte value of a character of the model's alphabet; a character
\* outside ASCII stands for the byte 0xFF
Code(c) ==
  CASE c = LeadByte -> 195
    [] c = ContByte -> 169
    [] c = "\t" -> 9
    [] c = "\n" -> 10
    [] c = "\f" -> 12
    [] c = "\r" -> 13
    [] c \in AsciiChars \ {LeadByte, ContByte} -> AsciiCode[c]
    [] OTHER -> 255

\* char::is_whitespace, on the model's alphabet
IsWhitespace(c) == c \in {" ", "\t", "\n", "\f", "\r"}

IsDigit(c) == c \in {"0", "1", "2", "3", "4", "5", "6", "7", "8", "9"}

DigitVal(c) == Code(c) - 48

\* a byte that can be part of no UTF-8 text (0xFF)
InvalidByte == "ÿ"

\* byte i of s is in its place in a UTF-8 text: an ASCII byte, a lead byte
\* right before its continuation byte, or a continuation byte right after
\* its lead; the byte 0xFF never is
Utf8At(s, i) ==
  LET c == Chr(s, i)
  IN  IF c = LeadByte THEN i + 1 <= Len(s) /\ Chr(s, i + 1) = ContByte
      ELSE IF c = ContByte THEN i > 1 /\ Chr(s, i - 1) = LeadByte
      ELSE Code(c) < 128

\* String::from_utf8 succeeds
ValidUtf8(s) == \A i \in 1..Len(s) : Utf8At(s, i)

(***************************************************************************)
(* str::trim, str::to_lowercase, str::split(": "), usize::from_str_radix   *)
(***************************************************************************)
RECURSIVE TrimStartIdx(_, _)
TrimStartIdx(s, i) ==
  IF i <= Len(s) /\ IsWhitespace(Chr(s, i)) THEN TrimStartIdx(s, i + 1) ELSE i

RECURSIVE TrimEndIdx(_, _)
TrimEndIdx(s, j) ==
  IF j >= 1 /\ IsWhitespace(Chr(s, j)) THEN TrimEndIdx(s, j - 1) ELSE j

trim(s) ==
  LET i == TrimStartIdx(s, 1)
      j == TrimEndIdx(s, Len(s))
  IN  IF i > j THEN "" ELSE SubSeq(s, i, j)

LowerChar(c) ==
  IF c \in AsciiChars /\ AsciiCode[c] >= 65 /\ AsciiCode[c] <= 90
  THEN Chr(AsciiHi, AsciiCode[c] + 32 - 96)
  ELSE c

RECURSIVE to_lowercase(_)
to_lowercase(s) ==
  IF s = "" THEN "" ELSE LowerChar(Chr(s, 1)) \o to_lowercase(SubSeq(s, 2, Len(s)))

\* the first index at or after i where ": " starts, or 0
RECURSIVE FindSep(_, _)
FindSep(s, i) ==
  IF i + 1 > Len(s) THEN 0
  ELSE IF SubSeq(s, i, i + 1) = ": " THEN i
  ELSE FindSep(s, i + 1)

RECURSIVE split(_)
split(s) ==
  LET k == FindSep(s, 1)
  IN  IF k = 0 THEN << s >>
      ELSE << SubSeq(s, 1, k - 1) >> \o split(SubSeq(s, k + 2, Len(s)))

RECURSIVE DigitsValue(_, _, _)
DigitsValue(s, i, acc) ==
  IF i > Len(s) THEN acc
  ELSE DigitsValue(s, i + 1, acc * 10 + DigitVal(Chr(s, i)))

RECURSIVE AllDigits(_, _)
AllDigits(s, i) ==
  IF i > Len(s) THEN TRUE
  ELSE IsDigit(Chr(s, i)) /\ AllDigits(s, i + 1)

\* usize::from_str_radix(s, 10) and u64::from_str_radix(s, 10): an optional
\* "+", then at least one digit (the model's numbers stay far below 2^64)
from_str_radix(s) ==
  LET d == IF s # "" /\ Chr(s, 1) = "+" THEN SubSeq(s, 2, Len(s)) ELSE s
  IN  IF d = "" \/ ~AllDigits(d, 1)
      THEN [ok |-> FALSE, n |-> 0]
      ELSE [ok |-> TRUE, n |-> DigitsValue(d, 1, 0)]

RECURSIVE DigitsOf(_)
DigitsOf(n) ==
  IF n < 10 THEN Chr("0123456789", n + 1)
  ELSE DigitsOf(n \div 10) \o Chr("0123456789", (n % 10) + 1)

(***************************************************************************)
(* serde_json values, serde_json::to_string and serde_json::from_str, on   *)
(* the JSON subset of the model: null, booleans, natural numbers, strings,  *)
(* arrays and objects.                                                     *)
(***************************************************************************)
JNull == [t |-> "null"]

JNum(k) == [t |-> "num", n |-> k]

JStr(x) == [t |-> "str", s |-> x]

JObj(f) == [t |-> "obj", o |-> f]

JBool(b) == [t |-> "bool", b |-> b]

JArr(q) == [t |-> "arr", a |-> q]

EmptyMap == << >>

\* Map::insert: a later value for a key replaces the earlier one
MapInsert(f, k, v) == (k :> v) @@ f

\* Map::get, as an Option
MapGet(f, k) == IF k \in DOMAIN f THEN [some |-> TRUE, v |-> f[k]] ELSE [some |-> FALSE]

\* Map::remove
MapRemove(f, k) == [x \in (DOMAIN f) \ {k} |-> f[x]]

\* the order of str, byte by byte
RECURSIVE StrLess(_, _, _)
StrLess(a, b, i) ==
  IF i > Len(b) THEN FALSE
  ELSE IF i > Len(a) THEN TRUE
  ELSE IF Code(Chr(a, i)) < Code(Chr(b, i)) THEN TRUE
  ELSE IF Code(Chr(a, i)) > Code(Chr(b, i)) THEN FALSE
  ELSE StrLess(a, b, i + 1)

\* the keys of a map in the order its iterator yields them
RECURSIVE SortedKeys(_)
SortedKeys(K) ==
  IF K = {} THEN << >>
  ELSE LET m == CHOOSE x \in K : \A y \in K \ {x} : StrLess(x, y, 1)
       IN  << m >> \o SortedKeys(K \ {m})

EscapeChar(c) ==
  CASE c = "\"" -> "\\\""
    [] c = "\\" -> "\\\\"
    [] c = "\n" -> "\\n"
    [] c = "\r" -> "\\r"
    [] c = "\t" -> "\\t"
    [] c = "\f" -> "\\f"
    [] OTHER -> c

RECURSIVE Escape(_)
Escape(x) ==
  IF x = "" THEN "" ELSE EscapeChar(Chr(x, 1)) \o Escape(SubSeq(x, 2, Len(x)))

Quote(x) == "\"" \o Escape(x) \o "\""

\* serde_json::to_string: the compact serialization
RECURSIVE to_string(_)
RECURSIVE MembersText(_, _, _)
RECURSIVE ElementsText(_, _)
ElementsText(q, i) ==
  IF i > Len(q) THEN ""
  ELSE (IF i > 1 THEN "," ELSE "") \o to_string(q[i]) \o ElementsText(q, i + 1)

MembersText(f, keys, i) ==
  IF i > Len(keys) THEN ""
  ELSE (IF i > 1 THEN "," ELSE "")
       \o Quote(keys[i]) \o ":" \o to_string(f[keys[i]])
       \o MembersText(f, keys, i + 1)

to_string(v) ==
  CASE v.t = "null" -> "null"
    [] v.t = "num" -> DigitsOf(v.n)
    [] v.t = "str" -> Quote(v.s)
    [] v.t = "bool" -> IF v.b THEN "true" ELSE "false"
    [] v.t = "arr" -> "[" \o ElementsText(v.a, 1) \o "]"
    [] v.t = "obj" -> "{" \o MembersText(v.o, SortedKeys(DOMAIN v.o), 1) \o "}"

IsJsonWs(c) == c \in {" ", "\t", "\n", "\r"}

RECURSIVE SkipWs(_, _)
SkipWs(x, i) ==
  IF i <= Len(x) /\ IsJsonWs(Chr(x, i)) THEN SkipWs(x, i + 1) ELSE i

JFail == [ok |-> FALSE, v |-> JNull, i |-> 0]

\* the end of the run of digits that starts at i
RECURSIVE DigitsEnd(_, _)
DigitsEnd(x, i) ==
  IF i <= Len(x) /\ IsDigit(Chr(x, i)) THEN DigitsEnd(x, i + 1) ELSE i

ParseNumber(x, i) ==
  LET j == DigitsEnd(x, i)
  IN  IF Chr(x, i) = "0" /\ j > i + 1 THEN JFail
      ELSE IF j <= Len(x) /\ Chr(x, j) \in {".", "e", "E"} THEN JFail
      ELSE [ok |-> TRUE, v |-> JNum(DigitsValue(SubSeq(x, i, j - 1), 1, 0)), i |-> j]

UnescapeChar(c) ==
  CASE c = "\"" -> "\""
    [] c = "\\" -> "\\"
    [] c = "/" -> "/"
    [] c = "n" -> "\n"
    [] c = "r" -> "\r"
    [] c = "t" -> "\t"
    [] c = "f" -> "\f"
    [] OTHER -> ""

\* the text of a string whose opening quote is before i
RECURSIVE ParseStringBody(_, _, _)
ParseStringBody(x, i, acc) ==
  IF i > Len(x) THEN [ok |-> FALSE, s |-> "", i |-> 0]
  ELSE LET c == Chr(x, i)
       IN  IF c = "\"" THEN [ok |-> TRUE, s |-> acc, i |-> i + 1]
           ELSE IF c = "\\"
           THEN IF i + 1 > Len(x) \/ UnescapeChar(Chr(x, i + 1)) = ""
                THEN [ok |-> FALSE, s |-> "", i |-> 0]
                ELSE ParseStringBody(x, i + 2, acc \o UnescapeChar(Chr(x, i + 1)))
           ELSE IF Code(c) < 32 THEN [ok |-> FALSE, s |-> "", i |-> 0]
           ELSE ParseStringBody(x, i + 1, acc \o c)

RECURSIVE ParseValue(_, _)
RECURSIVE ParseMembers(_, _, _)
RECURSIVE ParseElements(_, _, _)
\* the elements of an array, from the first element at i (after white space)
ParseElements(x, i, q) ==
  LET r == ParseValue(x, i)
  IN  IF ~r.ok THEN JFail
      ELSE LET e == SkipWs(x, r.i)
               g == Append(q, r.v)
           IN  IF e > Len(x) THEN JFail
               ELSE IF Chr(x, e) = "]" THEN [ok |-> TRUE, v |-> JArr(g), i |-> e + 1]
               ELSE IF Chr(x, e) = "," THEN ParseElements(x, SkipWs(x, e + 1), g)
               ELSE JFail

\* the members of an object, from the first key at i (after white space)
ParseMembers(x, i, f) ==
  IF i > Len(x) \/ Chr(x, i) # "\"" THEN JFail
  ELSE LET k == ParseStringBody(x, i + 1, "")
       IN  IF ~k.ok THEN JFail
           ELSE LET c == SkipWs(x, k.i)
                IN  IF c > Len(x) \/ Chr(x, c) # ":" THEN JFail
                    ELSE LET r == ParseValue(x, SkipWs(x, c + 1))
                         IN  IF ~r.ok THEN JFail
                             ELSE LET e == SkipWs(x, r.i)
                                      g == MapInsert(f, k.s, r.v)
                                  IN  IF e > Len(x) THEN JFail
                                      ELSE IF Chr(x, e) = "}"
                                      THEN [ok |-> TRUE, v |-> JObj(g), i |-> e + 1]
                                      ELSE IF Chr(x, e) = ","
                                      THEN ParseMembers(x, SkipWs(x, e + 1), g)
                                      ELSE JFail

\* one value that starts at i (after white space)
ParseValue(x, i) ==
  IF i > Len(x) THEN JFail
  ELSE LET c == Chr(x, i)
       IN  IF c = "n"
           THEN IF i + 3 <= Len(x) /\ SubSeq(x, i, i + 3) = "null"
                THEN [ok |-> TRUE, v |-> JNull, i |-> i + 4]
                ELSE JFail
           ELSE IF c = "t"
           THEN IF i + 3 <= Len(x) /\ SubSeq(x, i, i + 3) = "true"
                THEN [ok |-> TRUE, v |-> JBool(TRUE), i |-> i + 4]
                ELSE JFail
           ELSE IF c = "f"
           THEN IF i + 4 <= Len(x) /\ SubSeq(x, i, i + 4) = "false"
                THEN [ok |-> TRUE, v |-> JBool(FALSE), i |-> i + 5]
                ELSE JFail
           ELSE IF c = "["
           THEN LET j == SkipWs(x, i + 1)
                IN  IF j <= Len(x) /\ Chr(x, j) = "]"
                    THEN [ok |-> TRUE, v |-> JArr(<< >>), i |-> j + 1]
                    ELSE ParseElements(x, j, << >>)
           ELSE IF IsDigit(c) THEN ParseNumber(x, i)
           ELSE IF c = "\""
           THEN LET r == ParseStringBody(x, i + 1, "")
                IN  IF r.ok THEN [ok |-> TRUE, v |-> JStr(r.s), i |-> r.i] ELSE JFail
           ELSE IF c = "{"
           THEN LET j == SkipWs(x, i + 1)
                IN  IF j <= Len(x) /\ Chr(x, j) = "}"
                    THEN [ok |-> TRUE, v |-> JObj(EmptyMap), i |-> j + 1]
                    ELSE ParseMembers(x, j, EmptyMap)
           ELSE JFail

\* serde_json::from_str: one value, and nothing but white space after it
from_str(x) ==
  LET r == ParseValue(x, SkipWs(x, 1))
  IN  IF r.ok /\ SkipWs(x, r.i) > Len(x)
      THEN [ok |-> TRUE, v |-> r.v]
      ELSE [ok |-> FALSE, v |-> JNull]


(***************************************************************************)
(* The message framer: src/parsing.rs                                      *)
(***************************************************************************)
HEADER_CONTENT_LENGTH == "content-length"

HEADER_CONTENT_TYPE == "content-type"

HeaderErr(e) == [ok |-> FALSE, h |-> "", len |-> 0, err |-> e]

\* the name against which a header's name is matched once it is lowercased
HeaderNameMatches(name, header) == name = header

\* (mutant) header names matched as they are written, the case kept
parse_header_case_sensitive(s) ==
  LET parts == split(s)
  IN  IF Len(parts) # 2 THEN HeaderErr("Unknown: malformed header")
      ELSE LET name == trim(parts[1])
               value == trim(parts[2])
           IN  IF HeaderNameMatches(name, HEADER_CONTENT_TYPE)
               THEN [ok |-> TRUE, h |-> "ContentType", len |-> 0, err |-> ""]
               ELSE IF HeaderNameMatches(name, HEADER_CONTENT_LENGTH)
               THEN LET n == from_str_radix(value)
                    IN  IF n.ok
                        THEN [ok |-> TRUE, h |-> "ContentLength", len |-> n.n, err |-> ""]
                        ELSE HeaderErr("ParseInt")
               ELSE HeaderErr("Unknown: Unknown header")

\* parse_header: the name and value parts of a header line
parse_header(s) ==
  LET parts == split(s)
  IN  IF Len(parts) # 2 THEN HeaderErr("Unknown: malformed header")
      ELSE LET name == to_lowercase(trim(parts[1]))
               value == to_lowercase(trim(parts[2]))
           IN  IF HeaderNameMatches(name, HEADER_CONTENT_TYPE)
               THEN [ok |-> TRUE, h |-> "ContentType", len |-> 0, err |-> ""]
               ELSE IF HeaderNameMatches(name, HEADER_CONTENT_LENGTH)
               THEN LET n == from_str_radix(value)
                    IN  IF n.ok
                        THEN [ok |-> TRUE, h |-> "ContentLength", len |-> n.n, err |-> ""]
                        ELSE HeaderErr("ParseInt")
               ELSE HeaderErr("Unknown: Unknown header")

\* the index of the first "\n" at or after i, or 0
RECURSIVE FindNewline(_, _)
FindNewline(s, i) ==
  IF i > Len(s) THEN 0
  ELSE IF Chr(s, i) = "\n" THEN i
  ELSE FindNewline(s, i + 1)

\* BufRead::read_line on the unread bytes s of a stream that is or is not at
\* its end: the line with its "\n", or what is left before the end of the
\* stream; "block" while neither a "\n" nor the end has come.  A line that is
\* not UTF-8 is consumed and is an error.
read_line(s, eof) ==
  LET k == FindNewline(s, 1)
      n == IF k > 0 THEN k ELSE Len(s)
  IN  IF k = 0 /\ ~eof THEN [st |-> "block", line |-> "", rest |-> s]
      ELSE IF ~ValidUtf8(SubSeq(s, 1, n))
      THEN [st |-> "err", line |-> "", rest |-> SubSeq(s, n + 1, Len(s))]
      ELSE [st |-> "ok", line |-> SubSeq(s, 1, n), rest |-> SubSeq(s, n + 1, Len(s))]

\* (mutant) the body read as text that ends with the line: at most n bytes,
\* and none after the first "\n"
read_exact_line(s, eof, n) ==
  LET k == FindNewline(s, 1)
      m == IF k > 0 /\ k < n THEN k ELSE n
  IN  IF Len(s) >= m
      THEN [st |-> "ok", bytes |-> SubSeq(s, 1, m), rest |-> SubSeq(s, m + 1, Len(s))]
      ELSE IF eof THEN [st |-> "err", bytes |-> "", rest |-> ""]
      ELSE [st |-> "block", bytes |-> "", rest |-> s]

\* Read::read_exact of n bytes: at the end of the stream with fewer than n
\* bytes left, an error that has consumed them
read_exact(s, eof, n) ==
  IF Len(s) >= n
  THEN [st |-> "ok", bytes |-> SubSeq(s, 1, n), rest |-> SubSeq(s, n + 1, Len(s))]
  ELSE IF eof THEN [st |-> "err", bytes |-> "", rest |-> ""]
  ELSE [st |-> "block", bytes |-> "", rest |-> s]

ReadErr(e, rest) == [st |-> "err", val |-> JNull, err |-> e, rest |-> rest]

ReadBlock == [st |-> "block", val |-> JNull, err |-> "", rest |-> ""]

\* read_message after its header loop: the body of content_length bytes
ReadBody(s, eof, content_length) ==
  IF ~content_length.some THEN ReadErr("Unknown: missing content-length header", s)
  ELSE LET b == read_exact(s, eof, content_length.n)
       IN  IF b.st = "block" THEN ReadBlock
           ELSE IF b.st = "err" THEN ReadErr("Io", b.rest)
           ELSE IF ~ValidUtf8(b.bytes) THEN ReadErr("Utf8", b.rest)
           ELSE LET j == from_str(b.bytes)
                IN  IF j.ok
                    THEN [st |-> "ok", val |-> j.v, err |-> "", rest |-> b.rest]
                    ELSE ReadErr("Json", b.rest)

\* the header loop of read_message
RECURSIVE ReadHeaders(_, _, _)
ReadHeaders(s, eof, content_length) ==
  LET l == read_line(s, eof)
  IN  IF l.st = "block" THEN ReadBlock
      ELSE IF l.st = "err" THEN ReadErr("Io", l.rest)
      ELSE IF Len(trim(l.line)) = 0 THEN ReadBody(l.rest, eof, content_length)
      ELSE LET h == parse_header(l.line)
           IN  IF ~h.ok THEN ReadErr(h.err, l.rest)
               ELSE IF h.h = "ContentLength"
               THEN ReadHeaders(l.rest, eof, [some |-> TRUE, n |-> h.len])
               ELSE ReadHeaders(l.rest, eof, content_length)

\* read_message on the unread bytes s: the decoded value or the error, and
\* the bytes it leaves unread; "block" while the stream holds too few bytes
read_message(s, eof) == ReadHeaders(s, eof, [some |-> FALSE, n |-> 0])

\* (mutant) the header line ended, the blank line left out
prepare_lsp_json_one_crlf(msg) ==
  LET request == to_string(msg)
  IN  "Content-Length: " \o DigitsOf(Len(request)) \o "\r\n" \o request

\* prepare_lsp_json: the frame of a value
prepare_lsp_json(msg) ==
  LET request == to_string(msg)
  IN  "Content-Length: " \o DigitsOf(Len(request)) \o "\r\n\r\n" \o request


(***************************************************************************)
(* The client connection: src/client.rs                                    *)
(***************************************************************************)
VARIABLES
  next_id,      \* LanguageServer.next_id
  pending,      \* LanguageServer.pending: request id -> completion
  peer,         \* the bytes written to LanguageServer.peer (the child's stdin)
  peer_open,    \* the child still reads its stdin
  lock,         \* the Mutex of LanguageServerRef: 0 when free, else the caller holding it
  poisoned,     \* a thread panicked while it held the Mutex
  caller_pc,    \* where each caller thread is in send_request / send_notification
  caller_rpc,   \* the envelope a caller inside its critical section is to write
  sends,        \* the calls made on the connection so far
  stdout,       \* the bytes of the child's stdout the reader has not consumed
  stdout_eof,   \* the child has closed its stdout
  srv_sent,     \* the frames the child has written to its stdout, in order
  reader_pc,    \* the reader thread: "read", "handle" or "panicked"
  reader_val,   \* the value read_message returned, while reader_pc = "handle"
  rlog,         \* what each iteration of the reader loop came to, in order
  invoked,      \* the completions called so far, in order, with their arguments
  issued,       \* the requests recorded so far: completion and id, in lock order
  eof_reads     \* the calls of read_message made on the closed, drained stream

vars ==
  << next_id, pending, peer, peer_open, lock, poisoned, caller_pc, caller_rpc, sends,
     stdout, stdout_eof, srv_sent, reader_pc, reader_val, rlog, invoked, issued,
     eof_reads >>

server_vars == << stdout_eof, srv_sent, peer_open >>

Callers == 1..NumCallers

\* the method and the parameters of every call the callers make
Method == "m"

Params == JNull

\* LanguageServerRef::new: the state of a fresh connection
FirstId == 1

\* the envelope of send_request
RequestEnvelope(id, method, params) ==
  JObj([jsonrpc |-> JStr("2.0"), id |-> JNum(id), method |-> JStr(method), params |-> params])

\* (mutant) a notification that carries an id field
NotificationEnvelopeWithId(method, params) ==
  JObj([jsonrpc |-> JStr("2.0"), id |-> JNum(0), method |-> JStr(method), params |-> params])

\* the envelope of send_notification
NotificationEnvelope(method, params) ==
  JObj([jsonrpc |-> JStr("2.0"), method |-> JStr(method), params |-> params])

\* (mutant) the completion recorded after the counter was stepped
InsertKeyAfterStep(id) == id + 1

\* the key under which send_request records the completion
InsertKey(id) == id

\* (mutant) the counter left as it was
IdAfterSame(id) == id

\* the counter after send_request has taken id
IdAfter(id) == id + 1

\* (mutant) ids taken as JSON numbers only
number_from_id_numbers_only(id) ==
  IF ~id.some THEN [ok |-> FALSE, n |-> 0, panic |-> "response missing id field"]
  ELSE IF id.v.t = "num" THEN [ok |-> TRUE, n |-> id.v.n, panic |-> ""]
  ELSE [ok |-> FALSE, n |-> 0, panic |-> "unexpected value for id field"]

\* number_from_id: the id of a response as a number, or the panic
number_from_id(id) ==
  IF ~id.some THEN [ok |-> FALSE, n |-> 0, panic |-> "response missing id field"]
  ELSE IF id.v.t = "num" THEN [ok |-> TRUE, n |-> id.v.n, panic |-> ""]
  ELSE IF id.v.t = "str"
  THEN LET r == from_str_radix(id.v.s)
       IN  IF r.ok THEN [ok |-> TRUE, n |-> r.n, panic |-> ""]
           ELSE [ok |-> FALSE, n |-> 0, panic |-> "failed to convert string id to u64"]
  ELSE [ok |-> FALSE, n |-> 0, panic |-> "unexpected value for id field"]

\* JsonRPC::parse_object of the jsonrpc_lite crate, as handle_msg matches on it
parse_object(val) ==
  IF val.t # "obj" THEN "ErrorRequst"
  ELSE IF MapGet(val.o, "jsonrpc") # [some |-> TRUE, v |-> JStr("2.0")] THEN "ErrorRequst"
  ELSE IF "method" \in DOMAIN val.o
  THEN IF "id" \in DOMAIN val.o THEN "Request" ELSE "Notification"
  ELSE IF "result" \in DOMAIN val.o THEN "Success"
  ELSE IF "error" \in DOMAIN val.o THEN "Error"
  ELSE "ErrorRequst"

Ok(v) == [ok |-> TRUE, v |-> v]

Err(v) == [ok |-> FALSE, v |-> v]

\* (mutant) the oldest pending entry taken, whatever the id of the response
RemoveEntryOldest(p, id) ==
  IF id \in DOMAIN p
  THEN [some |-> TRUE, v |-> p[CHOOSE k \in DOMAIN p : \A j \in DOMAIN p : k <= j]]
  ELSE [some |-> FALSE]

\* the entry pending.remove(&id) takes out for handle_response / handle_error
RemoveEntry(p, id) == MapGet(p, id)

\* (mutant) the entry looked up and left in the table
AfterRemoveKept(p, id) == p

\* (mutant) the table emptied when one entry is taken out
AfterRemoveAll(p, id) == EmptyMap

\* the table after pending.remove(&id)
AfterRemove(p, id) == MapRemove(p, id)

Init ==
  /\ next_id = FirstId
  /\ pending = EmptyMap
  /\ peer = ""
  /\ peer_open = TRUE
  /\ lock = 0
  /\ poisoned = FALSE
  /\ caller_pc = [c \in Callers |-> "idle"]
  /\ caller_rpc = [c \in Callers |-> JNull]
  /\ sends = 0
  /\ stdout = ""
  /\ stdout_eof = FALSE
  /\ srv_sent = << >>
  /\ reader_pc = "read"
  /\ reader_val = JNull
  /\ rlog = << >>
  /\ invoked = << >>
  /\ issued = << >>
  /\ eof_reads = 0

(***************************************************************************)
(* The caller threads.                                                     *)
(***************************************************************************)
\* (mutant) a caller that takes the Mutex whether it is poisoned or not
CallerLockIgnoresPoison(c, to) ==
  /\ caller_pc[c] = "idle"
  /\ sends < MaxSends
  /\ lock = 0
  /\ sends' = sends + 1
  /\ caller_pc' = [caller_pc EXCEPT ![c] = to]
  /\ lock' = c
  /\ UNCHANGED << next_id, pending, peer, poisoned, caller_rpc, issued, stdout,
                  reader_pc, reader_val, rlog, invoked, eof_reads >>
  /\ UNCHANGED server_vars

\* self.0.lock().unwrap() of a caller: it waits for the Mutex, and panics,
\* holding nothing, when the Mutex is poisoned
CallerLock(c, to) ==
  /\ caller_pc[c] = "idle"
  /\ sends < MaxSends
  /\ lock = 0
  /\ sends' = sends + 1
  /\ IF poisoned
     THEN /\ caller_pc' = [caller_pc EXCEPT ![c] = "panicked"]
          /\ lock' = lock
     ELSE /\ caller_pc' = [caller_pc EXCEPT ![c] = to]
          /\ lock' = c
  /\ UNCHANGED << next_id, pending, peer, poisoned, caller_rpc, issued, stdout,
                  reader_pc, reader_val, rlog, invoked, eof_reads >>
  /\ UNCHANGED server_vars

\* LanguageServerRef::send_request, up to the lock
CallSendRequest(c) == CallerLock(c, "send_request")

\* LanguageServerRef::send_notification, up to the lock
CallSendNotification(c) == CallerLock(c, "send_notification")

\* LanguageServer::send_request, up to its call of send_rpc: the envelope
\* with the next id, the completion recorded under it, the counter stepped
SendRequestWith(c, method, params) ==
  /\ caller_pc[c] = "send_request"
  /\ lock = c
  /\ LET completion == << c, sends >>
     IN  /\ caller_rpc' = [caller_rpc EXCEPT ![c] = RequestEnvelope(next_id, method, params)]
         /\ pending' = MapInsert(pending, InsertKey(next_id), completion)
         /\ issued' = Append(issued, [cb |-> completion, id |-> next_id])
  /\ next_id' = IdAfter(next_id)
  /\ caller_pc' = [caller_pc EXCEPT ![c] = "send_rpc"]
  /\ UNCHANGED << peer, lock, poisoned, sends, stdout, reader_pc, reader_val, rlog,
                  invoked, eof_reads >>
  /\ UNCHANGED server_vars

\* send_request as the callers of the connection's model call it
SendRequest(c) == SendRequestWith(c, Method, Params)

\* (mutant) a notification that takes an id from the counter
SendNotificationTakesId(c) ==
  /\ caller_pc[c] = "send_notification"
  /\ lock = c
  /\ caller_rpc' = [caller_rpc EXCEPT ![c] = NotificationEnvelope(Method, Params)]
  /\ caller_pc' = [caller_pc EXCEPT ![c] = "send_rpc"]
  /\ next_id' = next_id + 1
  /\ UNCHANGED << pending, peer, lock, poisoned, sends, issued, stdout,
                  reader_pc, reader_val, rlog, invoked, eof_reads >>
  /\ UNCHANGED server_vars

\* LanguageServer::send_notification, up to its call of send_rpc
SendNotificationWith(c, method, params) ==
  /\ caller_pc[c] = "send_notification"
  /\ lock = c
  /\ caller_rpc' = [caller_rpc EXCEPT ![c] = NotificationEnvelope(method, params)]
  /\ caller_pc' = [caller_pc EXCEPT ![c] = "send_rpc"]
  /\ UNCHANGED << next_id, pending, peer, lock, poisoned, sends, issued, stdout,
                  reader_pc, reader_val, rlog, invoked, eof_reads >>
  /\ UNCHANGED server_vars

\* send_notification as the callers of the connection's model call it
SendNotification(c) == SendNotificationWith(c, Method, Params)

\* LanguageServer::send_rpc and LanguageServer::write: the frame goes to the
\* child's stdin; a failed write panics inside the critical section, which
\* poisons the Mutex
SendRpc(c) ==
  /\ caller_pc[c] = "send_rpc"
  /\ lock = c
  /\ IF peer_open
     THEN /\ peer' = peer \o prepare_lsp_json(caller_rpc[c])
          /\ caller_pc' = [caller_pc EXCEPT ![c] = "return"]
          /\ UNCHANGED << lock, poisoned >>
     ELSE /\ caller_pc' = [caller_pc EXCEPT ![c] = "panicked"]
          /\ poisoned' = TRUE
          /\ lock' = 0
          /\ peer' = peer
  /\ UNCHANGED << next_id, pending, caller_rpc, sends, issued, stdout, reader_pc,
                  reader_val, rlog, invoked, eof_reads >>
  /\ UNCHANGED server_vars

\* the return of send_request / send_notification: the MutexGuard is dropped
CallerReturn(c) ==
  /\ caller_pc[c] = "return"
  /\ lock = c
  /\ lock' = 0
  /\ caller_pc' = [caller_pc EXCEPT ![c] = "idle"]
  /\ UNCHANGED << next_id, pending, peer, poisoned, caller_rpc, sends, issued, stdout,
                  reader_pc, reader_val, rlog, invoked, eof_reads >>
  /\ UNCHANGED server_vars


(***************************************************************************)
(* Dispatch: handle_msg, handle_response, handle_error.                    *)
(***************************************************************************)
\* what a call of handle_msg comes to: the arm taken (ev), whether the arm
\* takes the Mutex, the panic that ends it if any and whether the Mutex was
\* held then, the pending table it leaves, and the completions it called
Outcome(ev, locks, panic, held, p, calls) ==
  [ev |-> ev, locks |-> locks, panic |-> panic, held |-> held, pending |-> p, calls |-> calls]

Call(cb, res, by) == [cb |-> cb, res |-> res, by |-> by]

\* (mutant) a response for an id that is not pending dropped in silence
handle_response_lenient(p, id, result, val) ==
  LET e == RemoveEntry(p, id)
  IN  IF ~e.some
      THEN Outcome("Success", TRUE, "", FALSE, p, << >>)
      ELSE Outcome("Success", TRUE, "", FALSE, AfterRemove(p, id),
                   << Call(e.v, Ok(result), val) >>)

\* (mutant) the panic for a missing id raised once the Mutex is released
handle_response_unpoisoned(p, id, result, val) ==
  LET e == RemoveEntry(p, id)
  IN  IF ~e.some
      THEN Outcome("Success", TRUE, "id missing from request table", FALSE, p, << >>)
      ELSE Outcome("Success", TRUE, "", FALSE, AfterRemove(p, id),
                   << Call(e.v, Ok(result), val) >>)

\* LanguageServer::handle_response, called by handle_msg on message val
handle_response(p, id, result, val) ==
  LET e == RemoveEntry(p, id)
  IN  IF ~e.some
      THEN Outcome("Success", TRUE, "id missing from request table", TRUE, p, << >>)
      ELSE Outcome("Success", TRUE, "", FALSE, AfterRemove(p, id),
                   << Call(e.v, Ok(result), val) >>)

\* LanguageServer::handle_error, called by handle_msg on message val
handle_error(p, id, error, val) ==
  LET e == RemoveEntry(p, id)
  IN  IF ~e.some
      THEN Outcome("Error", TRUE, "id missing from request table", TRUE, p, << >>)
      ELSE Outcome("Error", TRUE, "", FALSE, AfterRemove(p, id),
                   << Call(e.v, Err(error), val) >>)

\* the test of the Error arm of handle_msg that sends an error on to
\* handle_error
ErrorIsDispatched(id) == id.t = "null"

\* the Success arm of handle_msg, the Mutex taken
SuccessArm(val, p) ==
  LET id == number_from_id(MapGet(val.o, "id"))
      result == MapGet(val.o, "result")
  IN  IF ~id.ok THEN Outcome("Success", TRUE, id.panic, TRUE, p, << >>)
      ELSE IF ~result.some
      THEN Outcome("Success", TRUE, "response missing 'result' field", TRUE, p, << >>)
      ELSE handle_response(p, id.n, result.v, val)

\* the Error arm of handle_msg
ErrorArm(val, p, poison) ==
  LET id == MapGet(val.o, "id")
  IN  IF ~id.some THEN Outcome("Error", FALSE, "error missing id field", FALSE, p, << >>)
      ELSE IF ErrorIsDispatched(id.v)
      THEN IF poison THEN Outcome("Error", TRUE, "PoisonError", FALSE, p, << >>)
           ELSE LET n == number_from_id(id)
                IN  IF ~n.ok THEN Outcome("Error", TRUE, n.panic, TRUE, p, << >>)
                    ELSE handle_error(p, n.n, val.o["error"], val)
      ELSE Outcome("Error", FALSE, "", FALSE, p, << >>)

\* LanguageServerRef::handle_msg on a decoded value, with the pending table
\* and the poison flag of the Mutex as it finds them
handle_msg(val, p, poison) ==
  LET kind == parse_object(val)
  IN  CASE kind = "Success" ->
             IF poison THEN Outcome("Success", TRUE, "PoisonError", FALSE, p, << >>)
             ELSE SuccessArm(val, p)
        [] kind = "Error" -> ErrorArm(val, p, poison)
        [] OTHER -> Outcome(kind, FALSE, "", FALSE, p, << >>)

(***************************************************************************)
(* The background reader: the loop of start_language_server.               *)
(***************************************************************************)
\* an iteration of the loop: what it came to (a parse error, or the arm of
\* handle_msg), the message handled, the error or panic message, and the ids
\* that were pending when it began
LogEntry(ev, msg, err, pend) == [ev |-> ev, msg |-> msg, err |-> err, pend |-> pend]

\* the stream is closed and the reader has consumed all of it
AtEof == stdout_eof /\ stdout = ""

\* parsing::read_message(&mut reader) and the match on its result: a value
\* goes to handle_msg, an error is printed and the loop goes round
ReaderRead ==
  /\ reader_pc = "read"
  /\ AtEof => eof_reads < MaxEofReads
  /\ LET r == read_message(stdout, stdout_eof)
     IN  /\ r.st # "block"
         /\ stdout' = r.rest
         /\ IF r.st = "ok"
            THEN /\ reader_pc' = "handle"
                 /\ reader_val' = r.val
                 /\ rlog' = rlog
            ELSE /\ reader_pc' = "read"
                 /\ reader_val' = reader_val
                 /\ rlog' = Append(rlog, LogEntry("parse error", JNull, r.err, DOMAIN pending))
  /\ eof_reads' = IF AtEof THEN eof_reads + 1 ELSE eof_reads
  /\ UNCHANGED << next_id, pending, peer, lock, poisoned, caller_pc, caller_rpc, sends,
                  issued, invoked >>
  /\ UNCHANGED server_vars

\* lang_server.handle_msg(val): an arm that takes the Mutex waits for it; a
\* panic ends the reader thread, and poisons the Mutex when it was held
ReaderHandle ==
  /\ reader_pc = "handle"
  /\ LET o == handle_msg(reader_val, pending, poisoned)
     IN  /\ o.locks => lock = 0
         /\ pending' = o.pending
         /\ invoked' = invoked \o o.calls
         /\ poisoned' = (poisoned \/ (o.panic # "" /\ o.held))
         /\ reader_pc' = IF o.panic # "" THEN "panicked" ELSE "read"
         /\ rlog' = Append(rlog, LogEntry(o.ev, reader_val, o.panic, DOMAIN pending))
  /\ reader_val' = JNull
  /\ UNCHANGED << next_id, peer, lock, caller_pc, caller_rpc, sends, issued, stdout,
                  eof_reads >>
  /\ UNCHANGED server_vars

(***************************************************************************)
(* The reader with the call of the completion as a step of its own.        *)
(***************************************************************************)
\* the reader thread as a holder of the Mutex
ReaderThread == NumCallers + 1

\* lang_server.handle_msg(val) up to callback.call(..): the reader takes the
\* Mutex, takes the entry out and enters the completion, the guard alive
ReaderDispatch ==
  /\ reader_pc = "handle"
  /\ LET o == handle_msg(reader_val, pending, poisoned)
     IN  /\ o.locks => lock = 0
         /\ pending' = o.pending
         /\ invoked' = invoked \o o.calls
         /\ poisoned' = (poisoned \/ (o.panic # "" /\ o.held))
         /\ rlog' = Append(rlog, LogEntry(o.ev, reader_val, o.panic, DOMAIN pending))
         /\ IF o.calls # << >>
            THEN reader_pc' = "callback" /\ lock' = ReaderThread
            ELSE /\ reader_pc' = IF o.panic # "" THEN "panicked" ELSE "read"
                 /\ lock' = lock
  /\ reader_val' = JNull
  /\ UNCHANGED << next_id, peer, caller_pc, caller_rpc, sends, issued, stdout, eof_reads >>
  /\ UNCHANGED server_vars

\* the completion returns, handle_response returns, the guard is dropped
CallbackReturn ==
  /\ reader_pc = "callback"
  /\ lock = ReaderThread
  /\ reader_pc' = "read"
  /\ lock' = 0
  /\ UNCHANGED << next_id, pending, peer, poisoned, caller_pc, caller_rpc, sends, issued,
                  stdout, reader_val, rlog, invoked, eof_reads >>
  /\ UNCHANGED server_vars

\* (mutant) a Mutex that lets the thread holding it lock it again: the call
\* made by the completion writes its frame and the completion returns
CallbackSendReentrant ==
  /\ reader_pc = "callback"
  /\ lock = ReaderThread
  /\ sends < MaxSends
  /\ sends' = sends + 1
  /\ peer' = peer \o prepare_lsp_json(NotificationEnvelope(Method, Params))
  /\ reader_pc' = "read"
  /\ lock' = 0
  /\ UNCHANGED << next_id, pending, poisoned, caller_pc, caller_rpc, issued, stdout,
                  reader_val, rlog, invoked, eof_reads >>
  /\ UNCHANGED server_vars

\* the completion calls send_request or send_notification on a clone of the
\* handle: lock() on the Mutex its own thread holds.  std leaves the outcome
\* open between the two that do not return: the thread blocks for ever, or
\* it panics, which unwinds through the guard and poisons the Mutex
CallbackSend ==
  /\ reader_pc = "callback"
  /\ lock = ReaderThread
  /\ sends < MaxSends
  /\ sends' = sends + 1
  /\ \/ reader_pc' = "blocked" /\ UNCHANGED << lock, poisoned >>
     \/ reader_pc' = "panicked" /\ lock' = 0 /\ poisoned' = TRUE
  /\ UNCHANGED << next_id, pending, peer, caller_pc, caller_rpc, issued, stdout,
                  reader_val, rlog, invoked, eof_reads >>
  /\ UNCHANGED server_vars

(***************************************************************************)
(* The language server subprocess, at the other end of the two pipes.      *)
(***************************************************************************)
\* a frame as a language server writes it
ServerFrame(text) == "Content-Length: " \o DigitsOf(Len(text)) \o "\r\n\r\n" \o text

SuccessMsg(id, result) == JObj([jsonrpc |-> JStr("2.0"), id |-> id, result |-> result])

ErrorMsg(id, error) == JObj([jsonrpc |-> JStr("2.0"), id |-> id, error |-> error])

\* the ids a server message may carry: those of the requests the callers can
\* make, and one more
ServerIds == 1..(MaxSends + 1)

\* the messages the server may write as its n-th frame: a response or an
\* error for any id (asked for or not), an error without id, a notification
ServerMsgs(n) ==
  { SuccessMsg(JNum(k), JNum(n)) : k \in ServerIds }
    \cup { ErrorMsg(JNum(k), JNum(n)) : k \in ServerIds }
    \cup { ErrorMsg(JNull, JNum(n)), NotificationEnvelope("n", JNum(n)) }

ServerWrite(frame) ==
  /\ ~stdout_eof
  /\ Len(srv_sent) < MaxServerMsgs
  /\ stdout' = stdout \o frame
  /\ srv_sent' = Append(srv_sent, frame)
  /\ UNCHANGED << next_id, pending, peer, lock, poisoned, caller_pc, caller_rpc, sends,
                  issued, reader_pc, reader_val, rlog, invoked, eof_reads, stdout_eof,
                  peer_open >>

\* the frames of those messages, for each n
ServerFrames ==
  [n \in 1..MaxServerMsgs |-> { ServerFrame(to_string(v)) : v \in ServerMsgs(n) }]

\* the server writes one JSON-RPC message, well framed
ServerSend ==
  /\ Len(srv_sent) < MaxServerMsgs
  /\ \E f \in ServerFrames[Len(srv_sent) + 1] : ServerWrite(f)

\* frames as a server may write them, well formed or not: the n-th frame
\* carries the notification numbered n, or goes wrong in one way
GoodBody(n) == to_string(NotificationEnvelope("n", JNum(n)))

RawFramesOf(body) ==
  { ServerFrame(body),
    "X-Foo: 1\r\n" \o ServerFrame(body),
    "Content-Length: " \o DigitsOf(Len(body)) \o "\r\nX-Foo: 1\r\n\r\n" \o body,
    "Content-Type: utf-8\r\n\r\n" \o body,
    "Content-Length " \o DigitsOf(Len(body)) \o "\r\n\r\n" \o body,
    "Content-Length: x\r\n\r\n" \o body,
    ServerFrame("{\"jsonrpc\""),
    ServerFrame(InvalidByte),
    "Content-Length: " \o DigitsOf(Len(body) + 1) \o "\r\n\r\n" \o body }

RawFrames == [n \in 1..MaxServerMsgs |-> RawFramesOf(GoodBody(n))]

\* the server writes one frame, well formed or not
ServerSendRaw ==
  /\ Len(srv_sent) < MaxServerMsgs
  /\ \E f \in RawFrames[Len(srv_sent) + 1] : ServerWrite(f)

\* the responses the server may write as its n-th frame when it gives ids as
\* numbers or as strings: both forms of each id a request can get
ServerIdMsgs(n) ==
  { SuccessMsg(JNum(k), JNum(n)) : k \in 1..MaxSends }
    \cup { SuccessMsg(JStr(DigitsOf(k)), JNum(n)) : k \in 1..MaxSends }

ServerIdFrames ==
  [n \in 1..MaxServerMsgs |-> { ServerFrame(to_string(v)) : v \in ServerIdMsgs(n) }]

\* the server writes one response, its id a number or a string
ServerSendAnyId ==
  /\ Len(srv_sent) < MaxServerMsgs
  /\ \E f \in ServerIdFrames[Len(srv_sent) + 1] : ServerWrite(f)

\* well-formed frames whose n-th carries the notification numbered n: the
\* header block written in each of the ways the protocol allows, then the
\* body with line ends and a blank line between its tokens, and with a
\* two-byte UTF-8 sequence in its method name
HeaderVariants(len) ==
  { "Content-Length: " \o len \o "\r\n\r\n",
    "content-length: " \o len \o "\r\n\r\n",
    "CONTENT-LENGTH: " \o len \o "\r\n\r\n",
    "Content-Length: " \o len \o "\n\n",
    "Content-Length: " \o len \o "\n\r\n",
    "Content-Type: application/vscode-jsonrpc; charset=utf-8\r\nContent-Length: " \o len \o "\r\n\r\n",
    "Content-Length: " \o len \o "\r\nContent-Type: application/vscode-jsonrpc; charset=utf-8\r\n\r\n",
    "content-TYPE: utf-8\nCONTENT-length: " \o len \o "\n\n" }

SpacedBody(n) ==
  "{\r\n\"jsonrpc\":\"2.0\",\r\n\r\n\"method\":\"n\",\n\"params\":" \o DigitsOf(n) \o "\r\n}\r\n"

AccentName == "caf" \o LeadByte \o ContByte

AccentBody(n) == to_string(NotificationEnvelope(AccentName, JNum(n)))

\* a frame with the value it carries
Carrying(frame, val) == [frame |-> frame, val |-> val]

WellFormedFramesOf(n) ==
  { Carrying(h \o GoodBody(n), NotificationEnvelope("n", JNum(n))) :
      h \in HeaderVariants(DigitsOf(Len(GoodBody(n)))) }
    \cup { Carrying(ServerFrame(SpacedBody(n)), NotificationEnvelope("n", JNum(n))),
            Carrying(ServerFrame(AccentBody(n)), NotificationEnvelope(AccentName, JNum(n))) }

WellFormedFrames == [n \in 1..MaxServerMsgs |-> WellFormedFramesOf(n)]

\* the server writes one well-formed frame
ServerSendWellFormed ==
  /\ Len(srv_sent) < MaxServerMsgs
  /\ \E m \in WellFormedFrames[Len(srv_sent) + 1] : ServerWrite(m.frame)

\* the subprocess exits: both pipes close
ServerExit ==
  /\ ~stdout_eof
  /\ stdout_eof' = TRUE
  /\ peer_open' = FALSE
  /\ UNCHANGED << next_id, pending, peer, lock, poisoned, caller_pc, caller_rpc, sends,
                  issued, stdout, srv_sent, reader_pc, reader_val, rlog, invoked,
                  eof_reads >>

(***************************************************************************)
(* The connection: callers, reader and server.                             *)
(***************************************************************************)
Next ==
  \/ \E c \in Callers : CallSendRequest(c)
  \/ \E c \in Callers : CallSendNotification(c)
  \/ \E c \in Callers : SendRequest(c)
  \/ \E c \in Callers : SendNotification(c)
  \/ \E c \in Callers : SendRpc(c)
  \/ \E c \in Callers : CallerReturn(c)
  \/ ReaderRead
  \/ ReaderHandle
  \/ ServerSend
  \/ ServerExit

Spec == Init /\ [][Next]_vars

\* the reader alone, on a stream of frames that are well formed or not
NextFraming ==
  \/ ServerSendRaw
  \/ ServerExit
  \/ ReaderRead
  \/ ReaderHandle

SpecFraming == Init /\ [][NextFraming]_vars

\* values for the params of a call: each kind of value, strings with the
\* characters the serializer escapes and with a two-byte sequence, nested
\* and empty containers, keys out of order
SampleValues ==
  { JNull,
    JNum(907),
    JStr("a\"b\\c/\nd\r\t\f"),
    JStr(AccentName),
    JArr(<< JNum(0), JBool(TRUE), JBool(FALSE), JStr("x,y: z"), JNull, JArr(<< JStr("") >>),
            JArr(<< >>), JObj(EmptyMap) >>),
    JObj([b |-> JNum(10), a |-> JObj(("k\"" :> JArr(<< JNum(2) >>)) @@ ("Z" :> JNull))]) }

\* the calls the callers make: a method and its params
SampleCalls ==
  { << Method, v >> : v \in SampleValues } \cup { << "text/did\"Open\"", JNull >> }

\* the callers alone, making any of those calls
NextRoundTrip ==
  \/ \E c \in Callers : CallSendRequest(c)
  \/ \E c \in Callers : CallSendNotification(c)
  \/ \E c \in Callers, a \in SampleCalls : SendRequestWith(c, a[1], a[2])
  \/ \E c \in Callers, a \in SampleCalls : SendNotificationWith(c, a[1], a[2])
  \/ \E c \in Callers : SendRpc(c)
  \/ \E c \in Callers : CallerReturn(c)

SpecRoundTrip == Init /\ [][NextRoundTrip]_vars

\* callers, server and reader, the completion called as a step of its own
NextCallbacks ==
  \/ \E c \in Callers : CallSendRequest(c)
  \/ \E c \in Callers : CallSendNotification(c)
  \/ \E c \in Callers : SendRequest(c)
  \/ \E c \in Callers : SendNotification(c)
  \/ \E c \in Callers : SendRpc(c)
  \/ \E c \in Callers : CallerReturn(c)
  \/ ReaderRead
  \/ ReaderDispatch
  \/ CallbackReturn
  \/ CallbackSend
  \/ ServerSend

SpecCallbacks == Init /\ [][NextCallbacks]_vars

\* callers and reader, with a server that gives ids in either form
NextIds ==
  \/ \E c \in Callers : CallSendRequest(c)
  \/ \E c \in Callers : SendRequest(c)
  \/ \E c \in Callers : SendRpc(c)
  \/ \E c \in Callers : CallerReturn(c)
  \/ ReaderRead
  \/ ReaderHandle
  \/ ServerSendAnyId

SpecIds == Init /\ [][NextIds]_vars

\* the reader alone, on a stream of well-formed frames
NextWellFormed ==
  \/ ServerSendWellFormed
  \/ ServerExit
  \/ ReaderRead
  \/ ReaderHandle

SpecWellFormed == Init /\ [][NextWellFormed]_vars


(***************************************************************************)
(* Properties.                                                             *)
(***************************************************************************)
Indices(q) == 1..Len(q)

\* the number of times completion cb has been called
InvokeCount(cb) == Cardinality({ j \in Indices(invoked) : invoked[j].cb = cb })

\* message msg is a Success response that carries id k
IsSuccessFor(msg, k) ==
  /\ parse_object(msg) = "Success"
  /\ number_from_id(MapGet(msg.o, "id")).ok
  /\ number_from_id(MapGet(msg.o, "id")).n = k

\* entry e of the reader's log is a dispatch of a Success response for id k
\* that found the Mutex sound
DispatchedSuccess(e, k) ==
  /\ e.ev = "Success"
  /\ e.err # "PoisonError"
  /\ IsSuccessFor(e.msg, k)

\* the values of the frames on a stream, up to the first that does not decode
RECURSIVE DecodeAll(_)
DecodeAll(x) ==
  IF x = "" THEN << >>
  ELSE LET r == read_message(x, TRUE)
       IN  IF r.st = "ok" THEN << r.val >> \o DecodeAll(r.rest) ELSE << >>

IsRequest(v) == parse_object(v) = "Request"

\* the ids of the Request frames written to the child's stdin, in order
WrittenRequestIds ==
  LET reqs == SelectSeq(DecodeAll(peer), IsRequest)
  IN  [j \in Indices(reqs) |-> reqs[j].o["id"].n]

\* C1: the requests sent, from whatever callers and in whatever interleaving,
\* have pairwise distinct ids, and every request whose Success response has
\* been dispatched has had its completion called exactly once
C1_DistinctIdsCompletedOnce ==
  /\ \A i, j \in Indices(issued) : i # j => issued[i].id # issued[j].id
  /\ \A i \in Indices(issued) :
       (\E l \in Indices(rlog) : DispatchedSuccess(rlog[l], issued[i].id))
         => InvokeCount(issued[i].cb) = 1

\* the lock has been taken by callers on different handles
TwoCallersIssued ==
  \E i, j \in Indices(issued) : issued[i].cb[1] # issued[j].cb[1]

\* two callers have each sent a request, the two responses have been
\* dispatched, and both completions have been called
C1_Witness ==
  /\ Len(issued) = 2
  /\ TwoCallersIssued
  /\ \A i \in Indices(issued) :
       /\ \E l \in Indices(rlog) : DispatchedSuccess(rlog[l], issued[i].id)
       /\ InvokeCount(issued[i].cb) = 1

\* C2: a completion called for a Success response is the one that send_request
\* recorded under the id the response carries, and its argument is Ok of the
\* result the response carries
C2_CorrelatedById ==
  \A j \in Indices(invoked) :
    parse_object(invoked[j].by) = "Success" =>
      /\ \E i \in Indices(issued) :
           /\ issued[i].cb = invoked[j].cb
           /\ IsSuccessFor(invoked[j].by, issued[i].id)
      /\ invoked[j].res = Ok(invoked[j].by.o["result"])

\* requests 1 and 2 were sent in this order, their responses came as 2 then
\* 1, and each completion got the result of the response with its own id
C2_Witness ==
  /\ Len(issued) = 2
  /\ Len(invoked) = 2
  /\ issued[1].id = 1 /\ issued[2].id = 2
  /\ invoked[1].cb = issued[2].cb /\ IsSuccessFor(invoked[1].by, 2)
  /\ invoked[2].cb = issued[1].cb /\ IsSuccessFor(invoked[2].by, 1)
  /\ invoked[1].res # invoked[2].res

\* the completion recorded for id k was called for a message other than msg
CompletedBefore(k, msg) ==
  \E i \in Indices(issued), j \in Indices(invoked) :
    issued[i].id = k /\ invoked[j].cb = issued[i].cb /\ invoked[j].by # msg

\* C3: a Success response for an id whose Request frame has been written
\* finds the entry of that id in the pending table when it is dispatched,
\* unless the request was completed before (a second response)
C3_EntryBeforeResponse ==
  \A l \in Indices(rlog) :
    \A k \in ServerIds :
      ( /\ DispatchedSuccess(rlog[l], k)
        /\ \E j \in Indices(WrittenRequestIds) : WrittenRequestIds[j] = k
        /\ ~CompletedBefore(k, rlog[l].msg) )
        => k \in rlog[l].pend /\ rlog[l].err = ""

\* the reader holds the response to a request whose sender is still inside
\* its critical section, after the write
C3_Witness ==
  \E c \in Callers :
    /\ caller_pc[c] = "return"
    /\ lock = c
    /\ reader_pc = "handle"
    /\ parse_object(caller_rpc[c]) = "Request"
    /\ IsSuccessFor(reader_val, caller_rpc[c].o["id"].n)

\* entry e of the reader's log is the dispatch of an Error message
IsErrorDispatch(e) == e.ev = "Error" /\ parse_object(e.msg) = "Error"

\* C4: an Error message whose id k is a number and in the pending table has
\* the entry of k removed and its completion called, once, with Err(error)
C4_ErrorCompletesRequest ==
  \A l \in Indices(rlog) :
    ( /\ IsErrorDispatch(rlog[l])
      /\ rlog[l].msg.o["id"].t = "num"
      /\ rlog[l].msg.o["id"].n \in rlog[l].pend )
      => /\ Cardinality({ j \in Indices(invoked) :
                            /\ invoked[j].by = rlog[l].msg
                            /\ invoked[j].res = Err(rlog[l].msg.o["error"]) }) = 1
         /\ rlog[l].msg.o["id"].n \notin DOMAIN pending

\* C5: an Error message with a null id calls no completion, leaves the
\* pending table as it was, and leaves the reader running and the Mutex sound
C5_NullIdErrorGoesOn ==
  \A l \in Indices(rlog) :
    (IsErrorDispatch(rlog[l]) /\ rlog[l].msg.o["id"].t = "null")
      => /\ \A j \in Indices(invoked) : invoked[j].by # rlog[l].msg
         /\ rlog[l].err = ""
         /\ (l = Len(rlog) => reader_pc # "panicked" /\ ~poisoned /\ DOMAIN pending = rlog[l].pend)

\* C6: no completion is called more than once
C6_AtMostOnce ==
  \A i, j \in Indices(invoked) : i # j => invoked[i].cb # invoked[j].cb

\* a second Success response for a request already completed was dispatched
C6_Witness ==
  \E l \in Indices(rlog), i \in Indices(issued) :
    /\ DispatchedSuccess(rlog[l], issued[i].id)
    /\ CompletedBefore(issued[i].id, rlog[l].msg)
    /\ InvokeCount(issued[i].cb) = 1

\* the frame f, alone on a stream, decodes to a value
WellFormed(f) == read_message(f, TRUE).st = "ok" /\ read_message(f, TRUE).rest = ""

\* C7: once the reader has consumed the whole stream, every well-formed frame
\* that came right after an undecodable one has been decoded and dispatched
C7_NextFrameDecoded ==
  (AtEof /\ reader_pc = "read") =>
    \A i \in Indices(srv_sent) :
      (i > 1 /\ ~WellFormed(srv_sent[i - 1]) /\ WellFormed(srv_sent[i]))
        => \E l \in Indices(rlog) :
             /\ rlog[l].ev # "parse error"
             /\ rlog[l].msg = read_message(srv_sent[i], TRUE).val

\* C8: the reader loop does not go round again on the closed stream
C8_LoopEndsAtEof == eof_reads <= 1

\* C9: a Success response whose id is not in the pending table ends the
\* reader with the panic "id ... missing from request table" (or the panic of
\* the poisoned Mutex), and no completion is called for it
C9_UnknownIdIsFatal ==
  \A l \in Indices(rlog) :
    \A k \in ServerIds :
      (rlog[l].ev = "Success" /\ IsSuccessFor(rlog[l].msg, k) /\ k \notin rlog[l].pend)
        => /\ rlog[l].err \in {"id missing from request table", "PoisonError"}
           /\ rlog[l].err = "PoisonError" => poisoned
           /\ l = Len(rlog)
           /\ reader_pc = "panicked"
           /\ \A j \in Indices(invoked) : invoked[j].by # rlog[l].msg

\* a Success response for an id no request was ever given has ended the reader
C9_Witness ==
  /\ reader_pc = "panicked"
  /\ Len(rlog) > 0
  /\ rlog[Len(rlog)].err = "id missing from request table"
  /\ \A i \in Indices(issued) : ~IsSuccessFor(rlog[Len(rlog)].msg, issued[i].id)

\* C10: the k-th request recorded has id k, and the k-th Request frame on the
\* child's stdin carries id k, whatever notifications were sent in between
C10_IdsCountFromOne ==
  /\ \A i \in Indices(issued) : issued[i].id = i
  /\ next_id = Len(issued) + 1
  /\ \A j \in Indices(WrittenRequestIds) : WrittenRequestIds[j] = j

\* a notification, then the first request, are on the child's stdin
C10_Witness ==
  /\ Len(DecodeAll(peer)) = 2
  /\ parse_object(DecodeAll(peer)[1]) = "Notification"
  /\ WrittenRequestIds = << 1 >>

\* the bytes a step has added to the child's stdin
Written == SubSeq(peer', Len(peer) + 1, Len(peer'))

\* caller c is inside a call of send_notification
InNotification(c) ==
  \/ caller_pc[c] = "send_notification"
  \/ caller_pc[c] \in {"send_rpc", "return"} /\ parse_object(caller_rpc[c]) = "Notification"

\* C11: send_notification builds an envelope that is a Notification without
\* an id field, writes it as exactly one frame, and from its lock to its
\* return the pending table, the counter and the completions called stay as
\* they were; a caller's write adds exactly the one frame of its envelope
C11_NotificationWritesOneFrame ==
  [][\A c \in Callers :
       /\ (caller_pc[c] = "send_notification" /\ caller_pc'[c] = "send_rpc")
            => /\ parse_object(caller_rpc'[c]) = "Notification"
               /\ "id" \notin DOMAIN caller_rpc'[c].o
       /\ (caller_pc[c] = "send_rpc" /\ caller_pc'[c] = "return")
            => /\ SubSeq(peer', 1, Len(peer)) = peer
               /\ DecodeAll(Written) = << caller_rpc[c] >>
       /\ InNotification(c)
            => /\ pending' = pending
               /\ next_id' = next_id
               /\ invoked' = invoked
               /\ (caller_pc'[c] # "return" \/ caller_pc[c] = "return") => peer' = peer
    ]_vars

\* a caller has written a notification while a request was pending: the
\* frame is the second on the child's stdin and the table still holds id 1
C11_Witness ==
  \E c \in Callers :
    /\ caller_pc[c] = "return"
    /\ parse_object(caller_rpc[c]) = "Notification"
    /\ DOMAIN pending = {1}
    /\ next_id = 2
    /\ Len(DecodeAll(peer)) = 2
    /\ DecodeAll(peer)[2] = caller_rpc[c]

\* the frames the reader has consumed: one for each turn of its loop
Consumed ==
  LET turns == Len(rlog) + (IF reader_pc = "handle" THEN 1 ELSE 0)
  IN  IF turns < Len(srv_sent) THEN turns ELSE Len(srv_sent)

RECURSIVE ConcatFrom(_, _)
ConcatFrom(q, i) == IF i > Len(q) THEN "" ELSE q[i] \o ConcatFrom(q, i + 1)

\* the value the i-th frame written was built to carry
CarriedBy(i) == (CHOOSE m \in WellFormedFrames[i] : m.frame = srv_sent[i]).val

\* the value the reader got from the i-th frame it consumed
ValueRead(i) == IF i <= Len(rlog) THEN rlog[i].msg ELSE reader_val

\* C12: on a stream of well-formed frames, whatever bytes their bodies hold,
\* after each decode the unread bytes are exactly the frames not yet
\* consumed, and the i-th value decoded is the value of the i-th frame
C12_BodyIsExactlyNBytes ==
  /\ stdout = ConcatFrom(srv_sent, Consumed + 1)
  /\ \A i \in 1..Consumed :
       /\ i <= Len(rlog) => rlog[i].ev = "Notification"
       /\ ValueRead(i) = CarriedBy(i)

\* a frame whose body holds line ends and a blank line and a frame whose body
\* holds a two-byte sequence have been decoded back to back
C12_Witness ==
  /\ Len(rlog) = 2
  /\ srv_sent = << ServerFrame(SpacedBody(1)), ServerFrame(AccentBody(2)) >>
  /\ rlog[1].msg = NotificationEnvelope("n", JNum(1))
  /\ rlog[2].msg = NotificationEnvelope(AccentName, JNum(2))
  /\ stdout = ""

\* the i-th frame written is the body GoodBody(i) under some header block
PlainBody(i) ==
  \E h \in HeaderVariants(DigitsOf(Len(GoodBody(i)))) : srv_sent[i] = h \o GoodBody(i)

\* C13: whatever the case of the header names, the order of the header
\* lines, with or without Content-Type, with "\r\n" or "\n" line ends, a
\* frame decodes to the value its body decodes to under the plain header
C13_HeaderVariantsDecodeAlike ==
  \A i \in 1..Consumed :
    PlainBody(i) =>
      /\ read_message(ServerFrame(GoodBody(i)), TRUE).st = "ok"
      /\ ValueRead(i) = read_message(ServerFrame(GoodBody(i)), TRUE).val
      /\ i <= Len(rlog) => rlog[i].ev # "parse error"

\* two frames with header blocks that differ from the plain one in case,
\* order, Content-Type and line ends have been decoded
C13_Witness ==
  /\ Len(rlog) = 2
  /\ Len(srv_sent) = 2
  /\ srv_sent[1] = "content-TYPE: utf-8\nCONTENT-length: "
                     \o DigitsOf(Len(GoodBody(1))) \o "\n\n" \o GoodBody(1)
  /\ srv_sent[2] = "Content-Length: " \o DigitsOf(Len(GoodBody(2)))
                     \o "\r\nContent-Type: application/vscode-jsonrpc; charset=utf-8\r\n\r\n"
                     \o GoodBody(2)
  /\ rlog[1].msg = NotificationEnvelope("n", JNum(1))
  /\ rlog[2].msg = NotificationEnvelope("n", JNum(2))

\* frame f is the n-th body under a header block that holds the header
\* X-Foo, before or after Content-Length
HasUnknownHeader(f, n) ==
  \/ f = "X-Foo: 1\r\n" \o ServerFrame(GoodBody(n))
  \/ f = "Content-Length: " \o DigitsOf(Len(GoodBody(n))) \o "\r\nX-Foo: 1\r\n\r\n" \o GoodBody(n)

\* C14: the body of a frame whose header block holds an unknown header is
\* never handed on as a decoded value, wherever the header stands, and the
\* reader goes on
C14_UnknownHeaderRejected ==
  \A i \in Indices(srv_sent) :
    HasUnknownHeader(srv_sent[i], i) =>
      /\ reader_val # NotificationEnvelope("n", JNum(i))
      /\ \A l \in Indices(rlog) : rlog[l].msg # NotificationEnvelope("n", JNum(i))
      /\ reader_pc # "panicked"

\* C15: the frame written for a value is "Content-Length: n", a blank line
\* and the compact text of the value, n the length of that text in bytes, and
\* read_message on the frame gives the value back and leaves nothing unread
C15_RoundTrip ==
  [][\A c \in Callers :
       (caller_pc[c] = "send_rpc" /\ caller_pc'[c] = "return") =>
         \E w \in {Written}, t \in {to_string(caller_rpc[c])} :
           LET r == read_message(w, TRUE)
           IN  /\ peer' = peer \o w
               /\ w = "Content-Length: " \o DigitsOf(Len(t)) \o "\r\n\r\n" \o t
               /\ from_str(t) = [ok |-> TRUE, v |-> caller_rpc[c]]
               /\ r.st = "ok" /\ r.val = caller_rpc[c] /\ r.rest = ""
    ]_vars

\* a notification whose params are an object with keys given out of order
\* and a request whose params are a string the serializer escapes are on the
\* child's stdin, byte for byte
C15_Witness ==
  peer = "Content-Length: 73\r\n\r\n"
         \o "{\"jsonrpc\":\"2.0\",\"method\":\"m\",\"params\":{\"a\":{\"Z\":null,\"k\\\"\":[2]},\"b\":10}}"
         \o "Content-Length: 66\r\n\r\n"
         \o "{\"id\":1,\"jsonrpc\":\"2.0\",\"method\":\"m\",\"params\":\"a\\\"b\\\\c/\\nd\\r\\t\\f\"}"

\* the reader thread has ended on the panic for an id that is not pending or
\* for a response without result
ReaderEndedOnMissing ==
  /\ reader_pc = "panicked"
  /\ Len(rlog) > 0
  /\ rlog[Len(rlog)].err \in {"id missing from request table", "response missing 'result' field"}

\* C16 as stated: once the reader has ended on such a panic the process is
\* gone, so no caller thread takes a step
C16_ProcessAborted ==
  [][ReaderEndedOnMissing => (caller_pc' = caller_pc /\ sends' = sends)]_vars

\* C16 amended: such a panic ends the reader thread alone and poisons the
\* Mutex; the reader dispatches nothing more, and a caller thread that goes
\* on to make a call panics at the lock, before it writes a byte or touches
\* the pending table or the counter
C16_OnlyReaderEnds ==
  [][ReaderEndedOnMissing =>
       /\ ReaderEndedOnMissing'
       /\ poisoned /\ poisoned'
       /\ rlog' = rlog /\ invoked' = invoked
       /\ peer' = peer /\ pending' = pending /\ next_id' = next_id
       /\ \A c \in Callers : caller_pc'[c] \in {caller_pc[c], "panicked"}
    ]_vars

\* the reader has ended on a response for an id that is not pending, and
\* afterwards a caller has begun a call and panicked at the lock
C16_Witness ==
  /\ ReaderEndedOnMissing
  /\ \E c \in Callers : caller_pc[c] = "panicked"
  /\ \E c \in Callers : caller_pc[c] = "idle"

\* the JSON value idv is the id k, as a number or as the string of its digits
IdDenotes(idv, k) == idv = JNum(k) \/ idv = JStr(DigitsOf(k))

\* C17: a Success response whose id is the number k or the string of the
\* digits of k, dispatched while k is pending, completes the request that
\* was given id k, with Ok of its result
C17_IdAsNumberOrString ==
  \A l \in Indices(rlog) :
    \A k \in ServerIds :
      ( /\ rlog[l].ev = "Success"
        /\ rlog[l].err # "PoisonError"
        /\ IdDenotes(rlog[l].msg.o["id"], k)
        /\ k \in rlog[l].pend )
        => /\ rlog[l].err = ""
           /\ \E j \in Indices(invoked), i \in Indices(issued) :
                /\ issued[i].id = k
                /\ invoked[j].cb = issued[i].cb
                /\ invoked[j].by = rlog[l].msg
                /\ invoked[j].res = Ok(rlog[l].msg.o["result"])

\* request 1 was completed by a response with the id "1" and request 2 by a
\* response with the id 2
C17_Witness ==
  /\ Len(issued) = 2
  /\ \E j \in Indices(invoked) :
       invoked[j].by.o["id"] = JStr("1") /\ invoked[j].cb = issued[1].cb
  /\ \E j \in Indices(invoked) :
       invoked[j].by.o["id"] = JNum(2) /\ invoked[j].cb = issued[2].cb

\* the message the reader is about to dispatch is a response that carries id k
ResponseInHandFor(k) ==
  /\ reader_pc = "handle"
  /\ parse_object(reader_val) \in {"Success", "Error"}
  /\ number_from_id(MapGet(reader_val.o, "id")).ok
  /\ number_from_id(MapGet(reader_val.o, "id")).n = k

\* the counter is at least 1 and every pending id is at least 1 and below it
IdsInRange(n, p) == n >= 1 /\ \A k \in DOMAIN p : 1 <= k /\ k < n

\* C18: the counter starts at 1 and never goes down, pending ids lie in
\* 1..next_id-1, an id is recorded only when it is not pending (the fresh
\* value of the counter, by send_request), an entry that stays keeps its
\* completion, and an entry goes only when the reader dispatches a response
\* that carries its id, one entry at a time
C18_PendingTable ==
  [][/\ IdsInRange(next_id, pending)
     /\ IdsInRange(next_id', pending')
     /\ next_id' >= next_id
     /\ \A k \in DOMAIN pending' \ DOMAIN pending :
          /\ k = next_id
          /\ \E c \in Callers : caller_pc[c] = "send_request" /\ caller_pc'[c] = "send_rpc"
     /\ \A k \in DOMAIN pending \cap DOMAIN pending' : pending'[k] = pending[k]
     /\ \A k \in DOMAIN pending \ DOMAIN pending' :
          /\ ResponseInHandFor(k)
          /\ DOMAIN pending' = DOMAIN pending \ {k}
    ]_vars

\* requests 1 and 2 were pending together, the response for 2 was
\* dispatched, and the entry of 1 is still in the table
C18_Witness ==
  /\ Len(issued) = 2
  /\ DOMAIN pending = {1}
  /\ next_id = 3
  /\ \E l \in Indices(rlog) : DispatchedSuccess(rlog[l], 2) /\ rlog[l].pend = {1, 2}

\* C19: while a completion runs the reader holds the Mutex, so no caller
\* moves and the stream to the child, the pending table and the counter
\* stay as they are; a completion that makes a call on the connection does
\* not return; and a reader that has stopped there dispatches nothing more
C19_CallbackUnderLock ==
  [][/\ reader_pc = "callback" =>
          /\ lock = ReaderThread
          /\ caller_pc' = caller_pc /\ issued' = issued
          /\ peer' = peer /\ pending' = pending /\ next_id' = next_id
          /\ sends' # sends => reader_pc' \in {"blocked", "panicked"}
     /\ reader_pc \in {"blocked", "panicked"} =>
          /\ reader_pc' = reader_pc
          /\ rlog' = rlog /\ invoked' = invoked
     /\ reader_pc = "blocked" =>
          /\ lock' = ReaderThread
          /\ caller_pc' = caller_pc /\ peer' = peer /\ pending' = pending
    ]_vars

\* the completion of request 1 has called the connection and the reader is
\* blocked on its own lock, a second response unread behind it and request
\* 2 never to be completed
C19_Witness ==
  /\ reader_pc = "blocked"
  /\ lock = ReaderThread
  /\ Len(rlog) = 1
  /\ Len(srv_sent) = 2
  /\ stdout = srv_sent[2]
  /\ Len(invoked) = 1

\* the panics of the reader inside its critical section
CriticalPanics ==
  { "id missing from request table", "response missing 'result' field",
    "response missing id field", "failed to convert string id to u64",
    "unexpected value for id field" }

\* C20: a panic of the reader inside its critical section, or of a sender on
\* its write, leaves the Mutex poisoned; and once it is poisoned it stays so,
\* a caller can only panic at the lock, nothing is written, the pending
\* table and the counter stay as they are and no completion is called
C20_PoisonedForGood ==
  [][/\ (reader_pc = "handle" /\ reader_pc' = "panicked"
          /\ rlog'[Len(rlog')].err \in CriticalPanics) => poisoned'
     /\ \A c \in Callers :
          (caller_pc[c] = "send_rpc" /\ caller_pc'[c] = "panicked") => poisoned'
     /\ poisoned =>
          /\ poisoned'
          /\ lock = 0 /\ lock' = 0
          /\ peer' = peer /\ pending' = pending /\ next_id' = next_id
          /\ invoked' = invoked
          /\ \A c \in Callers : caller_pc'[c] \in {caller_pc[c], "panicked"}
    ]_vars

\* a sender's write has failed with request 1 pending, and the response for
\* request 1, read afterwards, has ended the reader on the poisoned Mutex
\* with no completion called
C20_Witness ==
  /\ poisoned
  /\ \E c \in Callers : caller_pc[c] = "panicked"
  /\ reader_pc = "panicked"
  /\ Len(rlog) > 0
  /\ rlog[Len(rlog)].err = "PoisonError"
  /\ IsSuccessFor(rlog[Len(rlog)].msg, 1)
  /\ 1 \in DOMAIN pending
  /\ invoked = << >>


====
